---- MODULE Spec2Model ----
(***************************************************************************)
(* The CodeEditor component of src/src/constants.js: the Run handler       *)
(* (runCode), the stderr-to-line diagnostic extraction it performs, the    *)
(* errors/output React state, and the decorations it puts on the Monaco    *)
(* editor.                                                                 *)
(*                                                                         *)
(* Text is a sequence of one-character strings, so that split("\n"), the   *)
(* regular expression /line (\d+)/ and parseInt are modelled by what they  *)
(* do on characters.  A JavaScript object is the sequence of its own       *)
(* properties in the order Object.keys / Object.entries enumerate them.    *)
(***************************************************************************)
EXTENDS Integers, Sequences, FiniteSets, TLC

VARIABLES
    mounted,      \* the CodeEditor component is mounted
    editorRef,    \* editorRef.current: "null" before onMount, "editor" after
    editorText,   \* the content of the Monaco editor (editorRef.current.getValue())
    value,        \* React state `value`
    errors,       \* React state `errors`: a JavaScript object
    output,       \* React state `output`
    decorations,  \* the decorations held by the editor, in creation order
    inflight,     \* ids of the runCode calls suspended at `await executeCode`
    nRuns,        \* number of executeCode requests sent so far
    cleanupDue,   \* the cleanup of the [errors] effect is scheduled
    lastResult,   \* history: the last result handled by the try block without a throw
    lastEvent     \* history: the handler that ran last

vars == << mounted, editorRef, editorText, value, errors, output, decorations,
           inflight, nRuns, cleanupDue, lastResult, lastEvent >>

----------------------------------------------------------------------------
(* Bounds *)

\* number of executeCode requests a behaviour may send
MaxRuns == 2

\* number of pieces a generated stderr text is made of
MaxPieces == 6

----------------------------------------------------------------------------
(* Characters and texts *)

Digits == << "0", "1", "2", "3", "4", "5", "6", "7", "8", "9" >>

IsDigit(c) == \E d \in 1..10 : Digits[d] = c

DigitValue(c) == (CHOOSE d \in 1..10 : Digits[d] = c) - 1

NL == "\n"

\* the literal prefix of the regular expression /line (\d+)/
LinePrefix == << "l", "i", "n", "e", " " >>

\* JavaScript undefined where a text is expected: no text has this element
Undefined == << "undefined" >>

\* truthiness of a text-or-undefined value (the empty string is falsy)
Truthy(s) == s # Undefined /\ s # << >>

----------------------------------------------------------------------------
(* String.prototype.split("\n") *)

RECURSIVE SplitFrom(_, _, _)
\* cur is the line being accumulated, i the next position of s to read
SplitFrom(s, i, cur) ==
    IF i > Len(s) THEN << cur >>
    ELSE IF s[i] = NL THEN << cur >> \o SplitFrom(s, i + 1, << >>)
    ELSE SplitFrom(s, i + 1, Append(cur, s[i]))

split(s) == SplitFrom(s, 1, << >>)

----------------------------------------------------------------------------
(* line.match(/line (\d+)/): the leftmost match, with a greedy digit run *)

\* the null that match returns; a digit run never equals it
NoMatch == << "null" >>

\* "line " stands at position i of line
PrefixAt(line, i) ==
    /\ i + Len(LinePrefix) - 1 <= Len(line)
    /\ \A j \in 1..Len(LinePrefix) : line[i + j - 1] = LinePrefix[j]

RECURSIVE DigitRun(_, _)
\* the longest run of digits of line starting at position i
DigitRun(line, i) ==
    IF i <= Len(line) /\ IsDigit(line[i])
    THEN << line[i] >> \o DigitRun(line, i + 1)
    ELSE << >>

RECURSIVE MatchFrom(_, _)
\* the regex engine tries each start position from the left
MatchFrom(line, i) ==
    IF i > Len(line) THEN NoMatch
    ELSE IF PrefixAt(line, i) /\ DigitRun(line, i + Len(LinePrefix)) # << >>
         THEN DigitRun(line, i + Len(LinePrefix))
         ELSE MatchFrom(line, i + 1)

\* match[1] of line.match(/line (\d+)/), or NoMatch
match(line) == MatchFrom(line, 1)

----------------------------------------------------------------------------
(* parseInt(string, 10) and Number-to-property-key conversion *)

RECURSIVE ParseDigits(_, _, _)
\* reads digits from position i, stopping at the first non-digit
ParseDigits(s, i, acc) ==
    IF i <= Len(s) /\ IsDigit(s[i])
    THEN ParseDigits(s, i + 1, acc * 10 + DigitValue(s[i]))
    ELSE acc

\* parseInt(s, 10) of a string that starts with an optional sign and a digit
parseInt(s) ==
    IF Len(s) > 0 /\ s[1] = "-" THEN 0 - ParseDigits(s, 2, 0)
    ELSE ParseDigits(s, 1, 0)

RECURSIVE NatToString(_)
NatToString(n) ==
    IF n < 10 THEN << Digits[n + 1] >>
    ELSE Append(NatToString(n \div 10), Digits[(n % 10) + 1])

\* ToString(n): the property key a number is converted to
ToPropertyKey(n) == IF n < 0 THEN << "-" >> \o NatToString(0 - n) ELSE NatToString(n)

----------------------------------------------------------------------------
(* JavaScript objects: own properties in enumeration order *)

EmptyObject == << >>

\* an array index key is a canonical non-negative integer string; such keys
\* are enumerated first, in ascending numeric order, before all other keys
\* (the upper limit 2^32 - 2 lies beyond the digit runs modelled here)
IsArrayIndex(key) == key # << >> /\ key[1] # "-"

HasOwn(obj, key) == \E i \in 1..Len(obj) : obj[i].key = key

Get(obj, key) == obj[CHOOSE i \in 1..Len(obj) : obj[i].key = key].value

\* InsertPos of an object that enumerates all its keys in insertion order
InsertPos_append(obj, key) == Len(obj)

\* number of properties that stay before a new property with this key
InsertPos(obj, key) ==
    IF IsArrayIndex(key)
    THEN Cardinality({ i \in 1..Len(obj) :
            IsArrayIndex(obj[i].key) /\ parseInt(obj[i].key) < parseInt(key) })
    ELSE Len(obj)

\* Put that keeps the value a property already has
Put_keepFirst(obj, key, v) ==
    IF HasOwn(obj, key) THEN obj
    ELSE LET p == IF IsArrayIndex(key)
                  THEN Cardinality({ i \in 1..Len(obj) :
                          IsArrayIndex(obj[i].key) /\ parseInt(obj[i].key) < parseInt(key) })
                  ELSE Len(obj)
         IN  SubSeq(obj, 1, p) \o << [ key |-> key, value |-> v ] >>
                 \o SubSeq(obj, p + 1, Len(obj))

\* obj[key] = v
Put(obj, key, v) ==
    IF HasOwn(obj, key)
    THEN [ i \in 1..Len(obj) |->
            IF obj[i].key = key THEN [ key |-> key, value |-> v ] ELSE obj[i] ]
    ELSE LET p == InsertPos(obj, key)
         IN  SubSeq(obj, 1, p) \o << [ key |-> key, value |-> v ] >>
                 \o SubSeq(obj, p + 1, Len(obj))

\* Object.keys(obj)
ObjectKeys(obj) == [ i \in 1..Len(obj) |-> obj[i].key ]

----------------------------------------------------------------------------
(* The body of the try block of runCode after the await *)

\* result.run.stderr ? result.run.stderr.split("\n") : []
errorLines(stderr) == IF Truthy(stderr) THEN split(stderr) ELSE << >>

\* result.run.stdout || ""
outputLines(stdout) == IF Truthy(stdout) THEN stdout ELSE << >>

\* forEachBody without the conversion to the editor's 0-based line index
forEachBody_oneBased(errorMap, line) ==
    IF match(line) # NoMatch
    THEN LET lineNumber == parseInt(match(line))
         IN  Put(errorMap, ToPropertyKey(lineNumber), line)
    ELSE errorMap

\* the callback of errorLines.forEach applied to one line
forEachBody(errorMap, line) ==
    IF match(line) # NoMatch
    THEN LET lineNumber == parseInt(match(line)) - 1
         IN  Put(errorMap, ToPropertyKey(lineNumber), line)
    ELSE errorMap

RECURSIVE forEachFrom(_, _, _)
forEachFrom(lines, i, errorMap) ==
    IF i > Len(lines) THEN errorMap
    ELSE forEachFrom(lines, i + 1, forEachBody(errorMap, lines[i]))

\* errorMapOf that adds to the displayed errors instead of a fresh object
errorMapOf_merging(stderr) == forEachFrom(errorLines(stderr), 1, errors)

\* the errorMap that runCode builds from result.run.stderr
errorMapOf(stderr) == forEachFrom(errorLines(stderr), 1, EmptyObject)

\* newDecorations that uses the 0-based line index as the editor line
newDecorations_zeroBased(errorMap) ==
    [ i \in 1..Len(errorMap) |->
        LET lineNumber == ObjectKeys(errorMap)[i]
        IN  [ startLineNumber |-> parseInt(lineNumber),
              startColumn     |-> 1,
              endLineNumber   |-> parseInt(lineNumber),
              endColumn       |-> 1,
              isWholeLine     |-> TRUE,
              hoverMessage    |-> Get(errorMap, lineNumber) ] ]

\* Object.keys(errorMap).map(...): the decorations handed to the editor
newDecorations(errorMap) ==
    [ i \in 1..Len(errorMap) |->
        LET lineNumber == ObjectKeys(errorMap)[i]
        IN  [ startLineNumber |-> parseInt(lineNumber) + 1,
              startColumn     |-> 1,
              endLineNumber   |-> parseInt(lineNumber) + 1,
              endColumn       |-> 1,
              isWholeLine     |-> TRUE,
              hoverMessage    |-> Get(errorMap, lineNumber) ] ]

\* editor.deltaDecorations(oldDecorations, newDecorations) on the decorations
\* decs of the editor: the decorations whose ids are in oldIds are removed,
\* the new ones are added under fresh ids
FreshId(decs, i) ==
    i + (IF decs = << >> THEN 0 ELSE decs[Len(decs)].id)

deltaDecorations(decs, oldIds, newDecs) ==
    SelectSeq(decs, LAMBDA d : d.id \notin oldIds)
        \o [ i \in 1..Len(newDecs) |-> [ id |-> FreshId(decs, i), decoration |-> newDecs[i] ] ]

\* the list of "Line N: message" entries rendered from Object.entries(errors)
errorList(errs) ==
    [ i \in 1..Len(errs) |->
        [ line |-> parseInt(errs[i].key) + 1, message |-> errs[i].value ] ]

----------------------------------------------------------------------------
(* Inputs *)

\* CODE_SNIPPETS.python, the content the editor starts with
CODE_SNIPPETS_python == "\ndef greet(name):\n\tprint(\"Hello, \" + name + \"!\")\n\ngreet(\"Aro\")\n"

\* editor contents a user may type; only emptiness is ever tested
SourceTexts == { "", CODE_SNIPPETS_python, "print(x)" }

RECURSIVE Flatten(_)
Flatten(ss) == IF ss = << >> THEN << >> ELSE Head(ss) \o Flatten(Tail(ss))

\* the pieces stderr texts are generated from
Pieces == { LinePrefix, << "0" >>, << "1" >>, << "x" >>, << NL >> }

\* the sequences of at most MaxPieces pieces; a generated stderr text is
\* Flatten of one of them
PieceSeqs(n) == [ 1..n -> Pieces ]

\* the stderr texts of the multi-run specification
StderrSamples ==
    { Undefined,
      << >>,
      LinePrefix \o << "1" >>,
      LinePrefix \o << "2", NL, "x" >> \o LinePrefix \o << "1" >> }

StdoutSamples == { Undefined, << >>, << "o", "k" >> }

\* what `await executeCode(...)` can produce: a rejection, a response with
\* no run record, or a response with run.stderr and run.stdout
Rejected == [ rejected |-> TRUE,  hasRun |-> FALSE, stderr |-> Undefined, stdout |-> Undefined ]

NoRun == [ rejected |-> FALSE, hasRun |-> FALSE, stderr |-> Undefined, stdout |-> Undefined ]

Response(stderr, stdout) ==
    [ rejected |-> FALSE, hasRun |-> TRUE, stderr |-> stderr, stdout |-> stdout ]

Results(stderrs, stdouts) ==
    { Rejected, NoRun } \cup { Response(e, o) : e \in stderrs, o \in stdouts }

NoResult == [ id |-> 0, stderr |-> Undefined, stdout |-> Undefined ]

----------------------------------------------------------------------------
(* The component *)

Init ==
    /\ mounted = TRUE
    /\ editorRef = "null"
    /\ editorText = CODE_SNIPPETS_python
    /\ value = ""
    /\ errors = EmptyObject
    /\ output = << >>
    /\ decorations = << >>
    /\ inflight = {}
    /\ nRuns = 0
    /\ cleanupDue = FALSE
    /\ lastResult = NoResult
    /\ lastEvent = "init"

\* onMount: the editor widget has been created
onMount ==
    /\ mounted
    /\ editorRef = "null"
    /\ editorRef' = "editor"
    /\ lastEvent' = "onMount"
    /\ UNCHANGED << mounted, editorText, value, errors, output, decorations,
                    inflight, nRuns, cleanupDue, lastResult >>

\* handleEditorChange that also resets the errors state
handleEditorChange_clears(newValue) ==
    /\ mounted
    /\ editorRef = "editor"
    /\ newValue # editorText
    /\ editorText' = newValue
    /\ value' = newValue
    /\ errors' = EmptyObject
    /\ lastEvent' = "handleEditorChange"
    /\ UNCHANGED << mounted, editorRef, output, decorations,
                    inflight, nRuns, cleanupDue, lastResult >>

\* handleEditorChange(newValue): the editor reports its changed content
handleEditorChange(newValue) ==
    /\ mounted
    /\ editorRef = "editor"
    /\ newValue # editorText
    /\ editorText' = newValue
    /\ value' = newValue
    /\ lastEvent' = "handleEditorChange"
    /\ UNCHANGED << mounted, editorRef, errors, output, decorations,
                    inflight, nRuns, cleanupDue, lastResult >>

\* runCode that resets the errors state before it sends the request
runCode_clears(maxRuns) ==
    /\ mounted
    /\ nRuns < maxRuns
    /\ IF editorRef = "null"
       THEN /\ lastEvent' = "runCode:throw"
            /\ UNCHANGED << inflight, nRuns, errors >>
       ELSE IF editorText = ""
       THEN /\ lastEvent' = "runCode:return"
            /\ UNCHANGED << inflight, nRuns, errors >>
       ELSE /\ nRuns' = nRuns + 1
            /\ inflight' = inflight \cup { nRuns + 1 }
            /\ errors' = EmptyObject
            /\ lastEvent' = "runCode:await"
    /\ UNCHANGED << mounted, editorRef, editorText, value, output,
                    decorations, cleanupDue, lastResult >>

\* runCode without the return on an empty source
runCode_sendsEmpty(maxRuns) ==
    /\ mounted
    /\ nRuns < maxRuns
    /\ IF editorRef = "null"
       THEN /\ lastEvent' = "runCode:throw"
            /\ UNCHANGED << inflight, nRuns >>
       ELSE /\ nRuns' = nRuns + 1
            /\ inflight' = inflight \cup { nRuns + 1 }
            /\ lastEvent' = "runCode:await"
    /\ UNCHANGED << mounted, editorRef, editorText, value, errors, output,
                    decorations, cleanupDue, lastResult >>

\* runCode up to its await: reads the source and sends the request
runCode(maxRuns) ==
    /\ mounted
    /\ nRuns < maxRuns
    /\ IF editorRef = "null"
       THEN \* editorRef.current.getValue() throws outside the try block
            /\ lastEvent' = "runCode:throw"
            /\ UNCHANGED << inflight, nRuns >>
       ELSE IF editorText = ""
       THEN \* if (!sourceCode) return
            /\ lastEvent' = "runCode:return"
            /\ UNCHANGED << inflight, nRuns >>
       ELSE /\ nRuns' = nRuns + 1
            /\ inflight' = inflight \cup { nRuns + 1 }
            /\ lastEvent' = "runCode:await"
    /\ UNCHANGED << mounted, editorRef, editorText, value, errors, output,
                    decorations, cleanupDue, lastResult >>

\* tryBlock that displays a result only when it belongs to the latest request
tryBlock_latestOnly(id, result) ==
    LET errorMap == errorMapOf(result.stderr)
    IN  /\ errors' = IF id = nRuns THEN errorMap ELSE errors
        /\ output' = IF id = nRuns THEN outputLines(result.stdout) ELSE output
        /\ decorations' =
               IF editorRef # "null" /\ id = nRuns
               THEN deltaDecorations(decorations, {}, newDecorations(errorMap))
               ELSE decorations
        /\ cleanupDue' = (cleanupDue \/ id = nRuns)
        /\ lastResult' = [ id |-> id, stderr |-> result.stderr,
                           stdout |-> result.stdout ]
        /\ lastEvent' = "runCode:done"

\* the try block after the await, for a result that has a run record
tryBlock(id, result) ==
    LET errorMap == errorMapOf(result.stderr)
    IN  /\ errors' = errorMap
        /\ output' = outputLines(result.stdout)
        /\ decorations' =
               IF editorRef # "null"
               THEN deltaDecorations(decorations, {}, newDecorations(errorMap))
               ELSE decorations
        /\ cleanupDue' = TRUE
        /\ lastResult' = [ id |-> id, stderr |-> result.stderr,
                           stdout |-> result.stdout ]
        /\ lastEvent' = "runCode:done"

\* catchBlock that resets what is displayed
catchBlock_clears ==
    /\ lastEvent' = "runCode:catch"
    /\ errors' = EmptyObject
    /\ output' = << >>
    /\ UNCHANGED << decorations, cleanupDue, lastResult >>

\* the catch block: console.error and nothing else
catchBlock ==
    /\ lastEvent' = "runCode:catch"
    /\ UNCHANGED << errors, output, decorations, cleanupDue, lastResult >>

\* runCodeResume whose try block sets the output only when there is some
runCodeResume_keepsOutput(id, result) ==
    /\ mounted
    /\ id \in inflight
    /\ inflight' = inflight \ { id }
    /\ IF result.rejected \/ ~result.hasRun
       THEN catchBlock
       ELSE LET errorMap == errorMapOf(result.stderr)
            IN  /\ errors' = errorMap
                /\ output' = IF Truthy(result.stdout) THEN result.stdout ELSE output
                /\ decorations' =
                       IF editorRef # "null"
                       THEN deltaDecorations(decorations, {}, newDecorations(errorMap))
                       ELSE decorations
                /\ cleanupDue' = TRUE
                /\ lastResult' = [ id |-> id, stderr |-> result.stderr,
                                   stdout |-> result.stdout ]
                /\ lastEvent' = "runCode:done"
    /\ UNCHANGED << mounted, editorRef, editorText, value, nRuns >>

\* runCode from its await on, for the call with this id and this result
runCodeResume(id, result) ==
    /\ mounted
    /\ id \in inflight
    /\ inflight' = inflight \ { id }
    /\ IF result.rejected \/ ~result.hasRun
       THEN \* the await throws, or reading result.run.stderr does
            catchBlock
       ELSE tryBlock(id, result)
    /\ UNCHANGED << mounted, editorRef, editorText, value, nRuns >>

\* the function returned by the effect: editorRef.current.deltaDecorations([], [])
cleanup(decs) ==
    IF editorRef # "null" THEN deltaDecorations(decs, {}, << >>) ELSE decs

\* errors changed: React runs the cleanup of the previous [errors] effect
effectCleanup ==
    /\ mounted
    /\ cleanupDue
    /\ decorations' = cleanup(decorations)
    /\ cleanupDue' = FALSE
    /\ lastEvent' = "effectCleanup"
    /\ UNCHANGED << mounted, editorRef, editorText, value, errors, output,
                    inflight, nRuns, lastResult >>

\* the component unmounts: React runs the cleanup of the effect; what is
\* displayed ends here, and a result that arrives later has no component
unmount ==
    /\ mounted
    /\ mounted' = FALSE
    /\ decorations' = cleanup(IF cleanupDue THEN cleanup(decorations) ELSE decorations)
    /\ cleanupDue' = FALSE
    /\ lastEvent' = "unmount"
    /\ UNCHANGED << editorRef, editorText, value, errors, output,
                    inflight, nRuns, lastResult >>

Next ==
    \/ onMount
    \/ \E newValue \in SourceTexts : handleEditorChange(newValue)
    \/ runCode(MaxRuns)
    \/ \E id \in inflight, result \in Results(StderrSamples, StdoutSamples) :
           runCodeResume(id, result)
    \/ effectCleanup
    \/ unmount

Spec == Init /\ [][Next]_vars

\* one run of the component, its stderr drawn from every generated text
NextOneRun ==
    \/ onMount
    \/ runCode(1)
    \/ \E id \in inflight, n \in 0..MaxPieces : \E ps \in PieceSeqs(n) :
           runCodeResume(id, Response(Flatten(ps), << "o", "k" >>))
    \/ \E id \in inflight : runCodeResume(id, Response(Undefined, Undefined))
    \/ effectCleanup

SpecOneRun == Init /\ [][NextOneRun]_vars

----------------------------------------------------------------------------
(* The mapping the extraction is specified to compute, stated on positions *)

\* positions of the newline characters of a text
NewlinesOf(text) == { i \in 1..Len(text) : text[i] = NL }

\* position of the k-th newline; 0 for k = 0 and Len + 1 past the last one
NewlinePos(text, k) ==
    IF k = 0 THEN 0
    ELSE IF k > Cardinality(NewlinesOf(text)) THEN Len(text) + 1
    ELSE CHOOSE i \in NewlinesOf(text) :
            Cardinality({ m \in NewlinesOf(text) : m < i }) = k - 1

\* the newline-delimited lines of a stderr text; none for an empty or absent one
RefLines(text) ==
    IF text = Undefined \/ text = << >> THEN << >>
    ELSE [ j \in 1..(Cardinality(NewlinesOf(text)) + 1) |->
            SubSeq(text, NewlinePos(text, j - 1) + 1, NewlinePos(text, j) - 1) ]

\* "line " followed by a decimal digit occurs at position i of line
OccursAt(line, i) ==
    /\ i + 5 <= Len(line)
    /\ SubSeq(line, i, i + 4) = << "l", "i", "n", "e", " " >>
    /\ line[i + 5] \in { "0", "1", "2", "3", "4", "5", "6", "7", "8", "9" }

Reports(line) == \E i \in 1..Len(line) : OccursAt(line, i)

FirstOccurrence(line) ==
    CHOOSE i \in 1..Len(line) :
        OccursAt(line, i) /\ \A j \in 1..(i - 1) : ~OccursAt(line, j)

\* last position of the digit run that starts at position p
RunEnd(line, p) ==
    CHOOSE e \in p..Len(line) :
        /\ \A q \in p..e : IsDigit(line[q])
        /\ (e = Len(line) \/ ~IsDigit(line[e + 1]))

RECURSIVE Pow10(_)
Pow10(n) == IF n = 0 THEN 1 ELSE 10 * Pow10(n - 1)

RECURSIVE SumOver(_, _, _)
\* sum of the place values of the digits at positions ps of a run ending at e
SumOver(line, ps, e) ==
    IF ps = {} THEN 0
    ELSE LET q == CHOOSE x \in ps : TRUE
         IN  DigitValue(line[q]) * Pow10(e - q) + SumOver(line, ps \ { q }, e)

\* the line number N a reporting line reports
ReportedNumber(line) ==
    LET p == FirstOccurrence(line) + 5
        e == RunEnd(line, p)
    IN  SumOver(line, p..e, e)

\* the DiagnosticSet of a stderr text, a function from lineIndex to message
RefMap(text) ==
    LET lines == RefLines(text)
        reporting == { j \in 1..Len(lines) : Reports(lines[j]) }
        last(k) == CHOOSE j \in reporting :
                      /\ ReportedNumber(lines[j]) - 1 = k
                      /\ \A m \in reporting :
                            ReportedNumber(lines[m]) - 1 = k => m <= j
    IN  [ k \in { ReportedNumber(lines[j]) - 1 : j \in reporting } |-> lines[last(k)] ]

\* the lineIndex of each entry of a displayed errors object, in its order
LineIndexes(errs) == [ i \in 1..Len(errs) |-> errorList(errs)[i].line - 1 ]

\* a displayed errors object read as a function from lineIndex to message
AsMap(errs) ==
    [ k \in { LineIndexes(errs)[i] : i \in 1..Len(errs) } |->
        errs[CHOOSE i \in 1..Len(errs) : LineIndexes(errs)[i] = k].value ]

OneEntryPerIndex(errs) ==
    \A i, j \in 1..Len(errs) : LineIndexes(errs)[i] = LineIndexes(errs)[j] => i = j

\* some run's result has been handled by the try block
Handled == lastResult # NoResult

----------------------------------------------------------------------------
(* Claims about the extraction, checked under SpecOneRun *)

\* C1: the errors built from a stderr text are exactly the reference mapping:
\* every line whose first "line <digits>" reports N gives an entry at
\* lineIndex N - 1 holding the whole line, other lines give nothing, a text
\* without reporting lines (or an empty or absent one) gives the empty set.
C1_ExtractionIsReferenceMapping ==
    Handled =>
        /\ OneEntryPerIndex(errors)
        /\ AsMap(errors) = RefMap(lastResult.stderr)

\* a handled stderr with a line reporting 1, entered at lineIndex 0, and a
\* line reporting nothing
C1_Witness ==
    /\ Handled
    /\ LET lines == RefLines(lastResult.stderr)
       IN  /\ \E j \in 1..Len(lines) :
                 /\ Reports(lines[j])
                 /\ ReportedNumber(lines[j]) = 1
                 /\ 0 \in DOMAIN AsMap(errors)
                 /\ AsMap(errors)[0] = lines[j]
           /\ \E m \in 1..Len(lines) : ~Reports(lines[m])

\* C7: when several lines of one stderr report the same number N, the set has
\* exactly one entry at lineIndex N - 1 and its message is the last of them.
C7_LastMatchingLineWins ==
    Handled =>
        LET lines == RefLines(lastResult.stderr)
        IN  \A j, m \in 1..Len(lines) :
                ( /\ j < m
                  /\ Reports(lines[j]) /\ Reports(lines[m])
                  /\ ReportedNumber(lines[j]) = ReportedNumber(lines[m])
                  /\ \A n \in (m + 1)..Len(lines) :
                        Reports(lines[n]) =>
                            ReportedNumber(lines[n]) # ReportedNumber(lines[m]) )
                => /\ Cardinality({ i \in 1..Len(errors) :
                          LineIndexes(errors)[i] = ReportedNumber(lines[m]) - 1 }) = 1
                   /\ \A i \in 1..Len(errors) :
                          LineIndexes(errors)[i] = ReportedNumber(lines[m]) - 1
                              => errors[i].value = lines[m]

\* a handled stderr in which two different lines report the same number
C7_Witness ==
    /\ Handled
    /\ LET lines == RefLines(lastResult.stderr)
       IN  \E j, m \in 1..Len(lines) :
              /\ j < m
              /\ lines[j] # lines[m]
              /\ Reports(lines[j]) /\ Reports(lines[m])
              /\ ReportedNumber(lines[j]) = ReportedNumber(lines[m])

\* C8: every lineIndex of the set built from a stderr text is nonnegative,
\* and every displayLine derived from it is at least 1.
C8_LineIndexNonnegative ==
    /\ \A i \in 1..Len(errors) : LineIndexes(errors)[i] >= 0
    /\ \A i \in 1..Len(errors) : errorList(errors)[i].line >= 1
    /\ \A i \in 1..Len(decorations) : decorations[i].decoration.startLineNumber >= 1

\* the lineIndexes of a stderr text in the order they are first reported
RefInsertionOrder(text) ==
    LET lines == RefLines(text)
        firsts == { j \in 1..Len(lines) :
                      /\ Reports(lines[j])
                      /\ \A m \in 1..(j - 1) :
                            Reports(lines[m]) =>
                                ReportedNumber(lines[m]) # ReportedNumber(lines[j]) }
        nth(i) == CHOOSE j \in firsts : Cardinality({ m \in firsts : m < j }) = i - 1
    IN  [ i \in 1..Cardinality(firsts) |-> ReportedNumber(lines[nth(i)]) - 1 ]

\* the lineIndex each decoration of the editor annotates, in creation order
AnnotatedIndexes ==
    [ i \in 1..Len(decorations) |-> decorations[i].decoration.startLineNumber - 1 ]

\* every lineIndex displayed is a valid zero-based line index
AllNonnegative(errs) == \A i \in 1..Len(errs) : LineIndexes(errs)[i] >= 0

\* C9 as stated: the rendered error list and the annotation sequence
\* enumerate the set in the order the lineIndexes were first inserted
\* (stated for sets of valid lineIndexes only).
C9_InsertionOrder ==
    (Handled /\ editorRef = "editor" /\ AllNonnegative(errors)) =>
        /\ LineIndexes(errors) = RefInsertionOrder(lastResult.stderr)
        /\ AnnotatedIndexes = RefInsertionOrder(lastResult.stderr)

\* C9 amended: both enumerate the set in the property order of the object:
\* the nonnegative lineIndexes ascending, whatever the order of insertion or
\* of later overwrites, and after them the lineIndex -1 of a "line 0" report.
C9_PropertyOrder ==
    (Handled /\ editorRef = "editor") =>
        /\ \A i, j \in 1..Len(errors) :
              i < j => /\ LineIndexes(errors)[i] >= 0
                       /\ (LineIndexes(errors)[j] < 0
                             \/ LineIndexes(errors)[i] < LineIndexes(errors)[j])
        /\ AnnotatedIndexes = LineIndexes(errors)
        /\ \A i \in 1..Len(errors) :
              decorations[i].decoration.hoverMessage = errors[i].value

\* a handled stderr whose order of first insertion is not the displayed order
C9_Witness ==
    /\ Handled
    /\ editorRef = "editor"
    /\ Len(errors) >= 2
    /\ AllNonnegative(errors)
    /\ LineIndexes(errors) # RefInsertionOrder(lastResult.stderr)

\* C11: the annotations made from a DiagnosticSet are one per lineIndex of
\* the set, each on the single line lineIndex + 1 (range start line = range
\* end line), marked whole-line, with the entry's message as hover message;
\* the empty set gives no annotation.
C11_AnnotationProjection ==
    (Handled /\ editorRef = "editor") =>
        LET set == RefMap(lastResult.stderr)
        IN  /\ Len(decorations) = Cardinality(DOMAIN set)
            /\ \A k \in DOMAIN set :
                  Cardinality({ i \in 1..Len(decorations) :
                      decorations[i].decoration.startLineNumber = k + 1 }) = 1
            /\ \A i \in 1..Len(decorations) :
                  LET d == decorations[i].decoration
                  IN  /\ d.startLineNumber - 1 \in DOMAIN set
                      /\ d.endLineNumber = d.startLineNumber
                      /\ d.isWholeLine = TRUE
                      /\ d.hoverMessage = set[d.startLineNumber - 1]

\* a handled stderr whose set has two entries with different messages, both
\* annotated
C11_Witness ==
    /\ Handled
    /\ editorRef = "editor"
    /\ Cardinality(DOMAIN RefMap(lastResult.stderr)) >= 2
    /\ Len(decorations) >= 2
    /\ decorations[1].decoration.hoverMessage # decorations[2].decoration.hoverMessage

----------------------------------------------------------------------------
(* Claims about the component, checked under Spec *)

\* the steps of the handlers, recognised from the history variables
RequestStep == lastEvent' = "runCode:await" /\ nRuns' = nRuns + 1

DoneStep == lastEvent' = "runCode:done" /\ inflight' # inflight

CatchStep == lastEvent' = "runCode:catch" /\ inflight' # inflight

EditStep == lastEvent' = "handleEditorChange" /\ editorText' # editorText

\* the consumer's states: Idle shows no diagnostic and no decoration
Idle == errors = EmptyObject /\ decorations = << >>

Annotated == errors # EmptyObject

\* C2: whatever was displayed before, a step that handles a successful
\* response leaves errors equal to the set of that response's stderr, with
\* no entry of an earlier run.
C2_RunReplacesErrors ==
    [][ DoneStep =>
            /\ OneEntryPerIndex(errors')
            /\ AsMap(errors') = RefMap(lastResult'.stderr) ]_vars

\* a response has just been handled and a line annotated by an earlier run
\* is absent from the errors displayed now
C2_Witness ==
    /\ lastEvent = "runCode:done"
    /\ \E i \in 1..Len(decorations) : AnnotatedIndexes[i] \notin DOMAIN AsMap(errors)

C4_EditClearsErrors == [][ EditStep => errors' = EmptyObject ]_vars

\* C4 amended: a change of the editor content only stores the new content;
\* the displayed errors, the output and the decorations stay as they were.
C4_EditKeepsErrors ==
    [][ EditStep =>
            /\ value' = editorText'
            /\ errors' = errors
            /\ output' = output
            /\ decorations' = decorations ]_vars

\* the content has just been edited while diagnostics are displayed
C4_Witness ==
    /\ lastEvent = "handleEditorChange"
    /\ Annotated
    /\ decorations # << >>

\* C5: what is displayed is always the errors and the output of the response
\* that arrived last, also when that response belongs to an earlier request
\* than one already answered.
C5_LastArrivalWins ==
    Handled =>
        /\ AsMap(errors) = RefMap(lastResult.stderr)
        /\ output = IF lastResult.stdout = Undefined THEN << >> ELSE lastResult.stdout

\* two overlapping runs, both answered, the first requested answered last
C5_Witness ==
    /\ inflight = {}
    /\ nRuns >= 2
    /\ lastEvent = "runCode:done"
    /\ lastResult.id < nRuns
    /\ Annotated
    /\ output # << >>
    /\ Len(decorations) > Len(errors)

\* C6: a run whose request is rejected, or whose response has no run record,
\* ends in the catch block and leaves errors, output and decorations as they
\* were before it.
C6_FailureChangesNothing ==
    [][ CatchStep =>
            /\ errors' = errors
            /\ output' = output
            /\ decorations' = decorations ]_vars

\* a run has just failed while an earlier run's results are displayed
C6_Witness ==
    /\ lastEvent = "runCode:catch"
    /\ Annotated
    /\ output # << >>
    /\ decorations # << >>

\* C10: once the component has unmounted the editor holds no decoration.
C10_UnmountClearsDecorations == ~mounted => decorations = << >>

\* C12: the decorations on the editor are exactly those of the displayed
\* errors: one per lineIndex of the errors, none for any other line, so no
\* decoration of an earlier run is left once a later response is handled.
C12_DecorationsMatchErrors ==
    editorRef = "editor" =>
        /\ Len(decorations) = Len(errors)
        /\ \A i \in 1..Len(decorations) :
              AnnotatedIndexes[i] \in DOMAIN AsMap(errors)
        /\ \A k \in DOMAIN AsMap(errors) :
              Cardinality({ i \in 1..Len(decorations) : AnnotatedIndexes[i] = k }) = 1

\* the stdout a handled result displays
DisplayedStdout(stdout) == IF stdout = Undefined THEN << >> ELSE stdout

RunCallStep == lastEvent' \in { "runCode:throw", "runCode:return", "runCode:await" }

\* C14: a call of runCode while the editor's text is empty sends no request
\* and leaves errors, output and decorations as they were.
C14_EmptySourceSendsNothing ==
    [][ (RunCallStep /\ editorRef = "editor" /\ editorText = "") =>
            /\ lastEvent' = "runCode:return"
            /\ nRuns' = nRuns
            /\ inflight' = inflight
            /\ errors' = errors
            /\ output' = output
            /\ decorations' = decorations ]_vars

\* runCode has just returned on an empty source while an earlier run's
\* results are displayed
C14_Witness ==
    /\ lastEvent = "runCode:return"
    /\ editorText = ""
    /\ Annotated
    /\ output # << >>
    /\ decorations # << >>

====
